---------------------------- MODULE Spec2Model ----------------------------
(***************************************************************************)
(* A model of the Met Office site-specific forecast client                 *)
(* (src/metoffice/api.py, src/metoffice/const.py).                         *)
(*                                                                         *)
(* Time is counted in minutes since midnight UTC of day 0.  Python values  *)
(* that can be None or of several types are records with a type tag, so    *)
(* isinstance() and "is not None" are modelled by what they test.          *)
(***************************************************************************)
EXTENDS Integers, Sequences, FiniteSets, TLC

VARIABLES
    parameters,   \* Metoffice.parameters: the one apiparms instance of the module
    clients,      \* the MetofficeClient instances constructed so far
    forecast,     \* forecast[c][k]: client c's ForecastData slot for kind k
    now,          \* the wall clock, datetime.now()
    inflight,     \* inflight[t]: the request thread t is blocked in, or Idle
    last,         \* what the last step did (history, written by every action)
    origin        \* origin[c][k]: the coordinates of the query whose response
                  \* is in forecast[c][k] (history, kept by CallTraced only)

vars == <<parameters, clients, forecast, now, inflight, last, origin>>

---------------------------------------------------------------------------
(* Python values *)

None == [type |-> "NoneType", num |-> 0, str |-> ""]
Float(n) == [type |-> "float", num |-> n, str |-> ""]
Str(s) == [type |-> "str", num |-> 0, str |-> s]
Bool(b) == [type |-> "bool", num |-> IF b THEN 1 ELSE 0, str |-> ""]

\* isinstance(value, (int, float)); bool is a subclass of int
IsNumber(value) == value.type \in {"int", "float", "bool"}

\* An object without attributes (a None slot); hasattr(data, name)
NoData == <<>>
HasAttr(data, name) == name \in DOMAIN data

---------------------------------------------------------------------------
(* Bounds and inputs of the model *)

\* How many minutes the clock may advance past StartNow
MaxTicks == 2

MinutesPerDay == 24 * 60
\* The caller's local timezone, UTC+01:00
LocalUtcOffset == 1 * 60
\* 22:59 UTC, 23:59 local time of day 0
StartNow == 22 * 60 + 59
\* Model runs the service reports: 17:00 UTC (5h59m before StartNow) and 22:00 UTC
OldRun == 17 * 60
NewRun == 22 * 60

ClientIds == {"c1", "c2"}
Threads == {"t1", "t2"}

\* Arguments offered to set_coordinates
LatInputs == {Float(-86), Float(-85), Float(85), Float(86), Str("51.5")}
LonInputs == {Float(-181), Float(-180), Float(180), Float(181)}

---------------------------------------------------------------------------
(* const.py *)

\* ForecastType values
Kinds == {"Hourly", "ThreeHourly", "Daily"}

\* Endpoint.parms of the three endpoints: the same five keys each
EndpointParms(k) ==
    <<"dataSource", "excludeParameterMetadata", "includeLocationName", "latitude", "longitude">>

\* apiparms(): the defaults of the dataclass
apiparms ==
    [latitude |-> None,
     longitude |-> None,
     dataSource |-> Str("BD1"),
     excludeParameterMetadata |-> Bool(FALSE),
     includeLocationName |-> Bool(TRUE)]

\* ForecastData(): three empty slots
ForecastData == [k \in Kinds |-> NoData]

---------------------------------------------------------------------------
(* The service's answers.  A datetime is an instant (minutes, UTC) with the
   offset of its own timezone; the service writes its times in UTC. *)

Utc(t) == [time |-> t, utcoffset |-> 0]
\* datetime.now().astimezone(): the instant t in the caller's local timezone
LocalTime(t) == [time |-> t, utcoffset |-> LocalUtcOffset]
\* datetime.date(): the calendar day of the datetime in its own timezone
DateOf(dt) == (dt.time + dt.utcoffset) \div MinutesPerDay

Bodies == {"A", "B"}

\* The timeSeries of body b for kind k: A covers today, B starts later
SeriesOf(k, b) ==
    CASE k = "Daily" /\ b = "A" ->
           <<Utc(0), Utc(12 * 60), Utc(MinutesPerDay), Utc(2 * MinutesPerDay)>>
      [] k = "Daily" /\ b = "B" -> <<Utc(3 * MinutesPerDay)>>
      [] k = "Hourly" /\ b = "A" -> <<Utc(22 * 60), Utc(23 * 60), Utc(24 * 60)>>
      [] k = "Hourly" /\ b = "B" -> <<Utc(26 * 60)>>
      [] k = "ThreeHourly" /\ b = "A" -> <<Utc(21 * 60), Utc(24 * 60)>>
      [] OTHER -> <<Utc(27 * 60)>>

Parameter(desc, sym) ==
    [type |-> "Parameter", description |-> desc,
     unit |-> [label |-> sym, symbol |-> [value |-> "http://units", type |-> sym]]]

\* The parameter metadata of kind k (two of its fields)
MetadataOf(k) ==
    IF k = "Hourly"
    THEN [screenTemperature |-> Parameter("Screen Air Temperature", "Cel"),
          windSpeed10m |-> Parameter("10m Wind Speed", "m/s")]
    ELSE IF k = "ThreeHourly"
    THEN [feelsLikeTemp |-> Parameter("Feels Like Temperature", "Cel"),
          windSpeed10m |-> Parameter("10m Wind Speed", "m/s")]
    ELSE [dayMaxScreenTemperature |-> Parameter("Day Maximum Screen Air Temperature", "Cel"),
          midday10MWindSpeed |-> Parameter("10m Wind Speed at Local Midday", "m/s")]

\* The parsed response (HourlyResponse, ThreeHourResponse, DailyResponse) for body b:
\* A is the 17:00 model run for London with metadata, B the 22:00 run for Leeds
\* without (parameters keeps its default, None, written <<>>)
Response(k, b) ==
    [type |-> "FeatureCollection",
     features |->
        << [type |-> "Feature",
            geometry |-> [type |-> "Point",
                          coordinates |-> IF b = "A" THEN <<0, 51, 11>> ELSE <<-2, 54, 63>>],
            properties |->
                [location |-> [name |-> IF b = "A" THEN "London" ELSE "Leeds"],
                 requestPointDistance |-> 0,
                 modelRunDate |-> Utc(IF b = "A" THEN OldRun ELSE NewRun),
                 timeSeries |-> SeriesOf(k, b)]] >>,
     parameters |-> IF b = "A" THEN <<MetadataOf(k)>> ELSE <<>>]

\* What the transport and the parser can make of one GET: the request fails
\* (connection, status or timeout), the body does not parse, or a response
TransportOutcomes(k) ==
    {[status |-> "error", body |-> ""], [status |-> "malformed", body |-> ""]}
        \cup {[status |-> "ok", body |-> b] : b \in Bodies}

\* The service answers a query without latitude or longitude with a 4xx status
ServiceOutcomes(k, query) ==
    IF {"latitude", "longitude"} \subseteq DOMAIN query
    THEN TransportOutcomes(k)
    ELSE {[status |-> "error", body |-> ""]}

---------------------------------------------------------------------------
(* api.py *)

\* As ValidCoordinate, with the bounds themselves refused
ValidCoordinateStrict(value, min_val, max_val) ==
    IsNumber(value) /\ min_val < value.num /\ value.num < max_val

\* As ValidCoordinate, with the lower bound not tested
ValidCoordinateUpperOnly(value, min_val, max_val) ==
    IsNumber(value) /\ value.num <= max_val

\* _validate_coordinate: whether the value passes (the value itself is returned)
ValidCoordinate(value, min_val, max_val) ==
    IsNumber(value) /\ min_val <= value.num /\ value.num <= max_val

\* set_coordinates: the parameters after the call and the error it raised.
\* Latitude is assigned before longitude is validated.
SetCoordinatesResult(p, latitude, longitude) ==
    IF ~ValidCoordinate(latitude, -85, 85)
    THEN [parameters |-> p, raised |-> "MetofficeError: Latitude"]
    ELSE IF ~ValidCoordinate(longitude, -180, 180)
    THEN [parameters |-> [p EXCEPT !.latitude = latitude],
          raised |-> "MetofficeError: Longitude"]
    ELSE [parameters |-> [p EXCEPT !.latitude = latitude, !.longitude = longitude],
          raised |-> ""]

\* As BuildParams, with "if value" for "if value is not None": a parameter
\* that is False, zero or empty is left out with the unset ones
BuildParamsTruthy(p, k) ==
    LET keys == {EndpointParms(k)[i] : i \in DOMAIN EndpointParms(k)}
        Truthy(v) == v.type # "NoneType" /\ (v.num # 0 \/ v.str # "")
    IN  [key \in {e \in keys : Truthy(p[e])} |-> p[key]]

\* _call_api, lines 183-187: the query of the parameters that are set
BuildParams(p, k) ==
    LET keys == {EndpointParms(k)[i] : i \in DOMAIN EndpointParms(k)}
    IN  [key \in {e \in keys : p[e] # None} |-> p[key]]

\* As IsCurrent, with a response of exactly six hours still used
IsCurrentInclusive(data, t) ==
    /\ HasAttr(data, "type")
    /\ LocalTime(t).time - data.features[1].properties.modelRunDate.time <= 6 * 60

\* As IsCurrent, with timedelta(minutes=6) for timedelta(hours=6)
IsCurrentSixMinutes(data, t) ==
    /\ HasAttr(data, "type")
    /\ LocalTime(t).time - data.features[1].properties.modelRunDate.time < 6

\* _check_data, lines 70-77: a stored response younger than six hours is used
SixHours == 360
IsCurrent(data, t) ==
    /\ HasAttr(data, "type")
    /\ LocalTime(t).time - data.features[1].properties.modelRunDate.time < SixHours

\* As CallApi, with a failed GET sent a second time
CallApiRetry(p, k, outcome) ==
    [gets |-> IF outcome.status = "error" THEN 2 ELSE 1,
     query |-> [key \in {e \in {EndpointParms(k)[i] : i \in DOMAIN EndpointParms(k)} :
                           p[e] # None} |-> p[key]],
     transport |-> outcome.status,
     raised |-> CASE outcome.status = "error" -> "RequestException"
                  [] outcome.status = "malformed" -> "ParseError"
                  [] OTHER -> "",
     result |-> IF outcome.status = "ok" THEN Response(k, outcome.body) ELSE <<>>]

\* _call_api: one GET, its error raised again, the body parsed
CallApi(p, k, outcome) ==
    [gets |-> 1,
     query |-> BuildParams(p, k),
     transport |-> outcome.status,
     raised |-> CASE outcome.status = "error" -> "RequestException"
                  [] outcome.status = "malformed" -> "ParseError"
                  [] OTHER -> "",
     result |-> IF outcome.status = "ok" THEN Response(k, outcome.body) ELSE NoData]

\* As GetForecast, with the slot cleared when the call raised
GetForecastErased(data, called) ==
    IF called.raised = "" THEN called.result ELSE <<>>

\* _get_forecast: the slot after the call; setattr runs only if _call_api returned
GetForecast(data, called) ==
    IF called.raised = "" THEN called.result ELSE data

\* As SetSlot, with the response written to all three slots of the client
SetSlotEveryKind(f, c, k, data) == [f EXCEPT ![c] = [j \in Kinds |-> data]]

\* setattr(self._forecast, forecast.value, ...) and the attribute as it is left
\* by a call that stored nothing: client c's slot of kind k is data
SetSlot(f, c, k, data) == [f EXCEPT ![c][k] = data]

\* _check_data: the slot, and what was asked of the transport, after the check
CheckData(data, p, k, t, outcome) ==
    IF IsCurrent(data, t)
    THEN [data |-> data, gets |-> 0, query |-> <<>>, transport |-> "none", raised |-> ""]
    ELSE LET called == CallApi(p, k, outcome)
         IN  [data |-> GetForecast(data, called), gets |-> called.gets,
              query |-> called.query, transport |-> called.transport,
              raised |-> called.raised]

Returned(v) == [raised |-> "", value |-> <<v>>]
ReturnedNone == [raised |-> "", value |-> <<>>]
Raised(e) == [raised |-> e, value |-> <<>>]

\* The for loop with its return, given the indexes of the entries that pass
\* its test: the first of them is returned; falling off the end returns None
FirstEntry(series, hits) ==
    IF hits = {}
    THEN ReturnedNone
    ELSE Returned(series[CHOOSE i \in hits : \A j \in hits : i <= j])

\* As TodaysForecast, with today taken in UTC, not in the local timezone
TodaysForecastUtc(series, t) ==
    FirstEntry(series, {i \in DOMAIN series : DateOf(series[i]) = DateOf(Utc(t))})

\* get_todays_forecast, lines 101-104
TodaysForecast(series, t) ==
    FirstEntry(series, {i \in DOMAIN series : DateOf(series[i]) = DateOf(LocalTime(t))})

\* now.replace(minute=0, second=0, microsecond=0) on the local time, as an instant
CurrentHour(t) == ((t + LocalUtcOffset) \div 60) * 60 - LocalUtcOffset

\* get_current_hour_forecast, lines 111-114: aware datetimes compare as instants
CurrentHourForecast(series, t) ==
    FirstEntry(series, {i \in DOMAIN series : series[i].time = CurrentHour(t)})

\* getattr(response.parameters[0], parameter): None is not subscriptable, and
\* an unknown name is no attribute of the metadata record
ParameterOf(data, parameter) ==
    IF data.parameters = <<>>
    THEN Raised("TypeError")
    ELSE IF ~HasAttr(data.parameters[1], parameter)
    THEN Raised("AttributeError")
    ELSE Returned(data.parameters[1][parameter])

\* What an accessor returns from the slot once _check_data has returned
Extract(acc, arg, data, t) ==
    LET feature == data.features[1]
        param == ParameterOf(data, arg)
    IN  CASE acc = "get_time_series" -> Returned(feature.properties.timeSeries)
          [] acc = "get_todays_forecast" ->
                TodaysForecast(feature.properties.timeSeries, t)
          [] acc = "get_current_hour_forecast" ->
                CurrentHourForecast(feature.properties.timeSeries, t)
          [] acc = "get_location" -> Returned(feature.properties.location.name)
          [] acc = "get_height" -> Returned(feature.geometry.coordinates[3])
          [] acc = "get_model_run_date" -> Returned(feature.properties.modelRunDate)
          [] acc = "get_parameter_description" ->
                IF param.raised = "" THEN Returned(param.value[1].description) ELSE param
          [] OTHER ->
                IF param.raised = "" THEN Returned(param.value[1].unit.symbol.type) ELSE param

Accessors ==
    {"get_time_series", "get_todays_forecast", "get_current_hour_forecast",
     "get_location", "get_height", "get_model_run_date",
     "get_parameter_description", "get_parameter_unit"}

\* The calls the model makes: each accessor with the forecast kinds it is given
\* (get_height and get_model_run_date with their default, Daily) and, for the
\* parameter lookups, a name that is a field of the hourly and three-hourly
\* metadata and none of the daily
AccessorCalls ==
    {[acc |-> a, kind |-> k, arg |-> ""] :
        a \in {"get_time_series", "get_location"}, k \in Kinds}
    \cup {[acc |-> a, kind |-> "Daily", arg |-> ""] :
            a \in {"get_todays_forecast", "get_height", "get_model_run_date"}}
    \cup {[acc |-> "get_current_hour_forecast", kind |-> "Hourly", arg |-> ""]}
    \cup {[acc |-> a, kind |-> k, arg |-> "windSpeed10m"] :
            a \in {"get_parameter_description", "get_parameter_unit"}, k \in Kinds}

\* The calls of the specification with several clients
DefaultCalls == {[acc |-> "get_location", kind |-> "Daily", arg |-> ""]}

Idle == [busy |-> FALSE]

NoCall ==
    [op |-> "init", client |-> "", kind |-> "", arg |-> "", empty |-> FALSE, repeat |-> FALSE,
     gets |-> 0, transport |-> "none", raised |-> "", value |-> <<>>, query |-> <<>>]

Init ==
    /\ parameters = apiparms
    /\ clients = {"c1"}
    /\ forecast = [c \in ClientIds |-> ForecastData]
    /\ now = StartNow
    /\ inflight = [t \in Threads |-> Idle]
    /\ last = NoCall
    /\ origin = [c \in ClientIds |-> [k \in Kinds |-> <<>>]]

Tick ==
    /\ now < StartNow + MaxTicks
    /\ now' = now + 1
    /\ last' = [NoCall EXCEPT !.op = "tick"]
    /\ UNCHANGED <<parameters, clients, forecast, inflight, origin>>

\* MetofficeClient(api_key): a further client; it takes the module's Metoffice
\* as its _api and a ForecastData of its own
NewClient(c) ==
    /\ c \notin clients
    /\ clients' = clients \cup {c}
    /\ forecast' = [forecast EXCEPT ![c] = ForecastData]
    /\ last' = [NoCall EXCEPT !.op = "new", !.client = c]
    /\ UNCHANGED <<parameters, now, inflight, origin>>

\* As SetCoordinatesForecast, with the client's three slots emptied
SetCoordinatesForecastCleared(f, c) == [f EXCEPT ![c] = ForecastData]

\* self._forecast after set_coordinates: its statements assign
\* Metoffice.parameters[0] alone
SetCoordinatesForecast(f, c) == f

\* c.set_coordinates(latitude, longitude)
SetCoordinates(c, latitude, longitude) ==
    /\ c \in clients
    /\ LET r == SetCoordinatesResult(parameters, latitude, longitude)
       IN  /\ parameters' = r.parameters
           /\ last' = [NoCall EXCEPT !.op = "set_coordinates", !.client = c,
                                     !.raised = r.raised,
                                     !.query = <<latitude, longitude>>]
    /\ forecast' = SetCoordinatesForecast(forecast, c)
    /\ UNCHANGED <<clients, now, inflight, origin>>

\* History: this call comes straight after the same call, which had found the
\* slot empty and filled it
FollowsFill(c, call) ==
    /\ last.op = call.acc /\ last.client = c /\ last.kind = call.kind /\ last.arg = call.arg
    /\ last.empty /\ last.gets = 1 /\ last.raised = ""

\* One call of an accessor of client c by a single caller, from its cache
\* check to its return
CallStep(c, call) ==
    /\ c \in clients
    /\ \E outcome \in ServiceOutcomes(call.kind, BuildParams(parameters, call.kind)) :
         LET r == CheckData(forecast[c][call.kind], parameters, call.kind, now, outcome)
             x == IF r.raised = ""
                  THEN Extract(call.acc, call.arg, r.data, now)
                  ELSE Raised(r.raised)
         IN  /\ forecast' = SetSlot(forecast, c, call.kind, r.data)
             /\ last' = [op |-> call.acc, client |-> c, kind |-> call.kind,
                         arg |-> call.arg,
                         empty |-> ~HasAttr(forecast[c][call.kind], "type"),
                         repeat |-> FollowsFill(c, call),
                         gets |-> r.gets, transport |-> r.transport,
                         raised |-> x.raised, value |-> x.value, query |-> r.query]
    /\ UNCHANGED <<parameters, clients, now, inflight>>

\* The call, with no record of where its response came from
Call(c, call) ==
    /\ CallStep(c, call)
    /\ UNCHANGED origin

\* The call, with the latitude and longitude of its query (lines 183-187)
\* recorded against the slot when its response is stored (line 84)
CallTraced(c, call) ==
    /\ CallStep(c, call)
    /\ origin' = IF last'.transport = "ok"
                 THEN [origin EXCEPT ![c][call.kind] =
                          <<last'.query.latitude, last'.query.longitude>>]
                 ELSE origin

(* Two callers (threads) on one client.  A caller runs _check_data's test and,
   on a miss, blocks in the transport's GET; nothing in api.py holds a lock, so
   the other caller runs meanwhile.  The response is stored, and the accessor
   returns, when the GET completes. *)

\* Lines 70-78 and 183-192: the cache test and, on a miss, the GET sent
Begin(t, c, call) ==
    /\ c \in clients
    /\ ~inflight[t].busy
    /\ IF IsCurrent(forecast[c][call.kind], now)
       THEN /\ LET x == Extract(call.acc, call.arg, forecast[c][call.kind], now)
               IN  last' = [op |-> call.acc, client |-> c, kind |-> call.kind,
                            arg |-> call.arg, empty |-> FALSE, repeat |-> FALSE,
                            gets |-> 0,
                            transport |-> "none",
                            raised |-> x.raised, value |-> x.value, query |-> <<>>]
            /\ UNCHANGED inflight
       ELSE /\ inflight' = [inflight EXCEPT ![t] = [busy |-> TRUE, client |-> c, call |-> call]]
            /\ last' = [NoCall EXCEPT !.op = "send", !.client = c, !.kind = call.kind]
    /\ UNCHANGED <<parameters, clients, forecast, now, origin>>

\* Lines 192-199 and 84: the GET completes, the slot is written, the accessor returns
Finish(t) ==
    /\ inflight[t].busy
    /\ LET c == inflight[t].client
           call == inflight[t].call
       IN  \E outcome \in ServiceOutcomes(call.kind, BuildParams(parameters, call.kind)) :
             LET called == CallApi(parameters, call.kind, outcome)
                 data == GetForecast(forecast[c][call.kind], called)
                 x == IF called.raised = ""
                      THEN Extract(call.acc, call.arg, data, now)
                      ELSE Raised(called.raised)
             IN  /\ forecast' = SetSlot(forecast, c, call.kind, data)
                 /\ last' = [op |-> call.acc, client |-> c, kind |-> call.kind,
                             arg |-> call.arg,
                             empty |-> ~HasAttr(forecast[c][call.kind], "type"),
                             repeat |-> FALSE, gets |-> called.gets,
                             transport |-> called.transport, raised |-> x.raised,
                             value |-> x.value, query |-> called.query]
    /\ inflight' = [inflight EXCEPT ![t] = Idle]
    /\ UNCHANGED <<parameters, clients, now, origin>>

\* set_coordinates by a caller while no request is in flight (the query of a
\* request is built from the parameters when the request is sent)
SetCoordinatesQuiet(c, latitude, longitude) ==
    /\ \A t \in Threads : ~inflight[t].busy
    /\ SetCoordinates(c, latitude, longitude)

Next ==
    \/ Tick
    \/ \E c \in ClientIds, latitude \in LatInputs, longitude \in LonInputs :
          SetCoordinates(c, latitude, longitude)
    \/ \E c \in ClientIds, call \in AccessorCalls : Call(c, call)

\* One client, one caller, every accessor, the clock
Spec == Init /\ [][Next]_vars

NextClients ==
    \/ \E c \in ClientIds : NewClient(c)
    \/ \E c \in ClientIds, latitude \in LatInputs, longitude \in LonInputs :
          SetCoordinates(c, latitude, longitude)
    \/ \E c \in ClientIds, call \in DefaultCalls : Call(c, call)

\* Several clients in one process, each asking for the location of its
\* daily forecast
SpecClients == Init /\ [][NextClients]_vars

NextThreads ==
    \/ Tick
    \/ \E c \in ClientIds, latitude \in LatInputs, longitude \in LonInputs :
          SetCoordinatesQuiet(c, latitude, longitude)
    \/ \E t \in Threads, c \in ClientIds, call \in DefaultCalls : Begin(t, c, call)
    \/ \E t \in Threads : Finish(t)

\* One client called from two threads
SpecThreads == Init /\ [][NextThreads]_vars

\* The accessors asked of a client whose coordinates are moved
MovedCalls == {[acc |-> "get_location", kind |-> k, arg |-> ""] : k \in {"Daily", "Hourly"}}

NextMoved ==
    \/ Tick
    \/ \E c \in ClientIds, latitude \in LatInputs, longitude \in LonInputs :
          SetCoordinates(c, latitude, longitude)
    \/ \E c \in ClientIds, call \in MovedCalls : CallTraced(c, call)

\* One client whose coordinates are set between its calls, each stored
\* response traced to the coordinates it was asked for
SpecMoved == Init /\ [][NextMoved]_vars

---------------------------------------------------------------------------
(* Properties *)

\* The age of a stored response at time t, in minutes
AgeOf(data, t) == t - data.features[1].properties.modelRunDate.time
Stored(data) == HasAttr(data, "type")
InRange(value, lo, hi) == value.type \in {"int", "float", "bool"} /\ lo <= value.num /\ value.num <= hi
IsAccessorStep == last'.op \in Accessors
SlotOfLast == forecast[last.client][last.kind]

\* C1: an accessor's cache check fetches exactly once when the slot of its kind
\* is empty or the stored response is six hours old or older, and fetches nothing
\* and answers from the stored response, which stays, when it is younger.
C1_CacheCheck ==
    [][IsAccessorStep =>
        LET data == forecast[last'.client][last'.kind]
        IN  IF Stored(data) /\ AgeOf(data, now) < 6 * 60
            THEN /\ last'.gets = 0
                 /\ forecast' = forecast
                 /\ last'.raised = Extract(last'.op, last'.arg, data, now).raised
                 /\ last'.value = Extract(last'.op, last'.arg, data, now).value
            ELSE last'.gets = 1]_vars

\* A refresh at exactly six hours went to the transport (and failed, so the
\* six-hour-old response is still there)
C1_Witness ==
    /\ last.op \in Accessors
    /\ last.gets = 1
    /\ Stored(SlotOfLast)
    /\ AgeOf(SlotOfLast, now) = 6 * 60

\* C2: when the fetch of an accessor fails, in the transport or in parsing,
\* every slot holds what it held before the call and the accessor raises the error.
C2_FailedFetchKeepsSlot ==
    [][(IsAccessorStep /\ last'.transport \in {"error", "malformed"}) =>
        /\ forecast' = forecast
        /\ last'.raised = (IF last'.transport = "error" THEN "RequestException" ELSE "ParseError")
        /\ last'.value = <<>>]_vars

\* A refresh of a stored response failed and the response is still stored
C2_Witness ==
    /\ last.op \in Accessors
    /\ last.transport = "malformed"
    /\ ~last.empty
    /\ Stored(SlotOfLast)

\* C3: a set_coordinates call with a latitude or a longitude out of range fails
\* and leaves both stored coordinates as they were.
C3_AllOrNothing ==
    [][(last'.op = "set_coordinates"
          /\ ~(InRange(last'.query[1], -85, 85) /\ InRange(last'.query[2], -180, 180))) =>
        /\ last'.raised # ""
        /\ parameters'.latitude = parameters.latitude
        /\ parameters'.longitude = parameters.longitude]_vars

\* C4: set_coordinates with a latitude in [-85, 85] and a longitude in [-180, 180]
\* succeeds, the query of every forecast kind then holds exactly these two values,
\* and so does the query of the request that follows.
C4_ValidCoordinatesReachQuery ==
    [][/\ (last'.op = "set_coordinates"
             /\ InRange(last'.query[1], -85, 85) /\ InRange(last'.query[2], -180, 180)) =>
          /\ last'.raised = ""
          /\ \A k \in Kinds :
                LET q == BuildParams(parameters', k)
                IN  /\ {"latitude", "longitude"} \subseteq DOMAIN q
                    /\ q["latitude"] = last'.query[1]
                    /\ q["longitude"] = last'.query[2]
       /\ (last.op = "set_coordinates" /\ last.raised = ""
             /\ IsAccessorStep /\ last'.gets > 0) =>
          /\ {"latitude", "longitude"} \subseteq DOMAIN last'.query
          /\ last'.query["latitude"] = last.query[1]
          /\ last'.query["longitude"] = last.query[2]]_vars

\* A three-hourly request went out with the bounds 85 and -180 as its coordinates
C4_Witness ==
    /\ last.op \in Accessors
    /\ last.kind = "ThreeHourly"
    /\ last.gets = 1
    /\ {"latitude", "longitude"} \subseteq DOMAIN last.query
    /\ last.query["latitude"] = Float(85)
    /\ last.query["longitude"] = Float(-180)

\* C5 as claimed: get_location on an empty slot, answered by any response, and
\* get_location called again at once: the second call fetches nothing and
\* returns the same name.
C5_TwiceOneFetch ==
    [][(/\ last.op = "get_location" /\ last.empty /\ last.gets = 1 /\ last.raised = ""
        /\ last'.op = "get_location" /\ last'.client = last.client /\ last'.kind = last.kind
        /\ now' = now /\ parameters' = parameters) =>
        /\ last'.gets = 0
        /\ last'.raised = ""
        /\ last'.value = last.value]_vars

\* C5 as amended: the same, for a first response whose model run is less than
\* six hours old at the second call.
C5_TwiceOneFetchWhenCurrent ==
    [][(/\ last.op = "get_location" /\ last.empty /\ last.gets = 1 /\ last.raised = ""
        /\ AgeOf(SlotOfLast, now) < 6 * 60
        /\ last'.op = "get_location" /\ last'.client = last.client /\ last'.kind = last.kind
        /\ now' = now /\ parameters' = parameters) =>
        /\ last'.gets = 0
        /\ last'.raised = ""
        /\ last'.value = last.value]_vars

\* The second of two get_location calls was answered from the response, then
\* 5h59m old, that the first had fetched into an empty slot
C5_Witness ==
    /\ last.op = "get_location"
    /\ last.repeat
    /\ last.gets = 0
    /\ last.value = <<"London">>
    /\ AgeOf(SlotOfLast, now) = 6 * 60 - 1

\* C6: of two callers of the accessors of one forecast kind on one client, at
\* most one is fetching that kind at any time.
C6_OneFetchPerKind ==
    \A t1 \in Threads, t2 \in Threads :
        (t1 # t2 /\ inflight[t1].busy /\ inflight[t2].busy) =>
            ~(/\ inflight[t1].client = inflight[t2].client
              /\ inflight[t1].call.kind = inflight[t2].call.kind)

\* C7: an accessor sends one GET when it misses the cache and none otherwise;
\* when the GET fails the accessor raises the transport's error, returns
\* nothing, and has sent no second GET.
C7_OneGetNoRetry ==
    last.op \in Accessors =>
        /\ last.gets = (IF last.transport = "none" THEN 0 ELSE 1)
        /\ last.transport = "error" =>
              /\ last.gets = 1
              /\ last.raised = "RequestException"
              /\ last.value = <<>>

\* A refresh of a stored response failed in the transport
C7_Witness ==
    /\ last.op \in Accessors
    /\ last.transport = "error"
    /\ last.raised = "RequestException"
    /\ ~last.empty
    /\ {"latitude", "longitude"} \subseteq DOMAIN last.query

\* C8: an accessor called while the latitude or the longitude is unset fails
\* and sends no request.
C8_UnsetCoordinatesFailBeforeRequest ==
    (last.op \in Accessors /\ (parameters.latitude = None \/ parameters.longitude = None)) =>
        /\ last.raised # ""
        /\ last.gets = 0

\* C9: when a client has just been constructed, latitude and longitude are unset.
C9_NewClientStartsUnset ==
    last.op = "new" => (parameters.latitude = None /\ parameters.longitude = None)

\* C10: get_todays_forecast, once _check_data has returned, returns the first
\* entry of the daily series whose date is the caller's local date, and returns
\* None, raising nothing, when the series has no entry of that date.
C10_TodaysForecast ==
    (last.op = "get_todays_forecast" /\ last.transport \in {"none", "ok"}) =>
        LET series == SlotOfLast.features[1].properties.timeSeries
            today == (now + LocalUtcOffset) \div (24 * 60)
            dated == {i \in 1..Len(series) :
                        (series[i].time + series[i].utcoffset) \div (24 * 60) = today}
        IN  /\ last.kind = "Daily"
            /\ last.raised = ""
            /\ IF dated = {}
               THEN last.value = <<>>
               ELSE /\ last.value # <<>>
                    /\ \E i \in dated : /\ last.value = <<series[i]>>
                                        /\ \A j \in dated : i <= j

\* get_todays_forecast returned None: the fetched series starts after today
C10_Witness ==
    /\ last.op = "get_todays_forecast"
    /\ last.gets = 1
    /\ last.transport = "ok"
    /\ last.raised = ""
    /\ last.value = <<>>

\* C11: get_parameter_description and get_parameter_unit, once _check_data has
\* returned, raise UnknownParameter and return nothing when the stored response
\* has no parameter metadata and when the name is no field of its metadata.
C11_UnknownParameter ==
    (/\ last.op \in {"get_parameter_description", "get_parameter_unit"}
     /\ last.transport \in {"none", "ok"}
     /\ \/ SlotOfLast.parameters = <<>>
        \/ last.arg \notin DOMAIN SlotOfLast.parameters[1]) =>
        /\ last.raised = "UnknownParameter"
        /\ last.value = <<>>

\* C12: the query of a request holds exactly the keys of the endpoint whose
\* parameter is set, each with the parameter's value: an unset parameter has no
\* key, and excludeParameterMetadata, set to False, has its key.
C12_QueryHoldsSetParameters ==
    (last.op \in Accessors /\ last.gets > 0) =>
        LET accepted == {"dataSource", "excludeParameterMetadata", "includeLocationName",
                         "latitude", "longitude"}
        IN  /\ DOMAIN last.query = {key \in accepted : parameters[key].type # "NoneType"}
            /\ \A key \in DOMAIN last.query : last.query[key] = parameters[key]
            /\ "excludeParameterMetadata" \in DOMAIN last.query
            /\ last.query["excludeParameterMetadata"] = [type |-> "bool", num |-> 0, str |-> ""]

\* A request went out with the latitude set and the longitude unset: its query
\* has latitude and excludeParameterMetadata and no longitude
C12_Witness ==
    /\ last.op \in Accessors
    /\ last.gets = 1
    /\ parameters.longitude = None
    /\ DOMAIN last.query =
          {"dataSource", "excludeParameterMetadata", "includeLocationName", "latitude"}
    /\ last.query["latitude"] = Float(-85)

\* C13: set_coordinates leaves every slot as it was, and an accessor that finds
\* in its slot a response under six hours old fetched for other coordinates
\* than the present ones sends no request, leaves the slot, and returns what
\* that response holds.
C13_MovedCoordinatesKeepCache ==
    [][/\ last'.op = "set_coordinates" => forecast' = forecast
       /\ IsAccessorStep =>
            LET data == forecast[last'.client][last'.kind]
            IN  (/\ Stored(data)
                 /\ AgeOf(data, now) < 6 * 60
                 /\ origin[last'.client][last'.kind]
                        # <<parameters.latitude, parameters.longitude>>) =>
                    /\ last'.gets = 0
                    /\ forecast' = forecast
                    /\ origin' = origin
                    /\ last'.raised = Extract(last'.op, last'.arg, data, now).raised
                    /\ last'.value = Extract(last'.op, last'.arg, data, now).value]_vars

\* get_location answered, without a request, from a response that was fetched
\* for a longitude which a later set_coordinates replaced
C13_Witness ==
    /\ last.op = "get_location"
    /\ last.gets = 0
    /\ last.raised = ""
    /\ Stored(SlotOfLast)
    /\ origin[last.client][last.kind] # <<>>
    /\ origin[last.client][last.kind][2] # parameters.longitude
    /\ InRange(parameters.latitude, -85, 85)
    /\ InRange(parameters.longitude, -180, 180)
    /\ last.value = <<SlotOfLast.features[1].properties.location.name>>

\* C14: in every state the stored latitude is unset or a number from -85 to 85
\* and the stored longitude is unset or a number from -180 to 180, also after
\* a set_coordinates call that raised.
C14_StoredCoordinatesInRange ==
    /\ \/ parameters.latitude.type = "NoneType"
       \/ /\ parameters.latitude.type \in {"int", "float", "bool"}
          /\ -85 <= parameters.latitude.num /\ parameters.latitude.num <= 85
    /\ \/ parameters.longitude.type = "NoneType"
       \/ /\ parameters.longitude.type \in {"int", "float", "bool"}
          /\ -180 <= parameters.longitude.num /\ parameters.longitude.num <= 180

\* set_coordinates raised for its longitude after it had stored its latitude
C14_Witness ==
    /\ last.op = "set_coordinates"
    /\ last.raised = "MetofficeError: Longitude"
    /\ last.query[2].num = 181
    /\ parameters.latitude = Float(85)
    /\ parameters.longitude = Float(-180)

\* C15: a client starts with its three slots empty, and a call of an accessor
\* of one kind leaves the slots of the other two kinds as they were; the slot
\* of its own kind stays as it was or becomes, whole, the response just parsed.
C15_SlotsIndependent ==
    /\ \A c \in clients, k \in Kinds : ~Stored(forecast[c][k])
    /\ [][IsAccessorStep =>
            /\ \A c \in ClientIds, k \in Kinds :
                  (c # last'.client \/ k # last'.kind) => forecast'[c][k] = forecast[c][k]
            /\ IF last'.transport = "ok"
               THEN \E b \in Bodies :
                      forecast'[last'.client][last'.kind] = Response(last'.kind, b)
               ELSE forecast'[last'.client][last'.kind] = forecast[last'.client][last'.kind]]_vars

\* An hourly fetch replaced the hourly response while the daily and the
\* three-hourly responses stayed
C15_Witness ==
    /\ last.op \in Accessors
    /\ last.kind = "Hourly"
    /\ last.transport = "ok"
    /\ ~last.empty
    /\ Stored(forecast[last.client]["Daily"])
    /\ Stored(forecast[last.client]["ThreeHourly"])
    /\ forecast[last.client]["Hourly"].features[1].properties.location.name = "Leeds"
    /\ forecast[last.client]["Daily"].features[1].properties.location.name = "London"

=============================================================================
